---- MODULE Spec2Model ----
(***************************************************************************)
(* Model of scripts/clean_markdown.py: the line filter clean_line, the     *)
(* forward pass clean_markdown_content and the file driver process_file;   *)
(* and of src/rag/service.py: the RAGService and its index on disk.        *)
(*                                                                         *)
(* A character is a one-element string; characters outside ASCII are       *)
(* written as named tokens ("NBHY" is U+2011 NON-BREAKING HYPHEN, "EMDASH" *)
(* is U+2014, "BULLET" is U+2022, "CYR_x" is a Cyrillic letter).  A line   *)
(* is a sequence of characters.  A Python string holding a document is     *)
(* represented by the non-empty sequence of lines that split('\n') gives   *)
(* for it, so the string "" is << <<>> >>.  An Optional[str] is <<>> for   *)
(* None and <<s>> for the string s.                                        *)
(***************************************************************************)
EXTENDS Integers, Sequences, FiniteSets, TLC

\* ------------------------------------------------------------ characters

Digit == {"0", "1", "2", "3", "4", "5", "6", "7", "8", "9"}

Latin ==
  {"a", "b", "c", "d", "e", "f", "g", "h", "i", "j", "k", "l", "m", "n", "o",
   "p", "q", "r", "s", "t", "u", "v", "w", "x", "y", "z",
   "A", "B", "C", "D", "E", "F", "G", "H", "I", "J", "K", "L", "M", "N", "O",
   "P", "Q", "R", "S", "T", "U", "V", "W", "X", "Y", "Z"}

Cyrillic == {"CYR_N", "CYR_e", "CYR_s", "CYR_t", "CYR_i", "CYR_v", "CYR_soft"}

WhiteSpace == {" ", "\t", "\r"}

AlNum == Latin \cup Cyrillic \cup Digit

\* ------------------------------------------------------- string helpers

RECURSIVE LStrip(_)
LStrip(s) ==
  IF s # <<>> /\ Head(s) \in WhiteSpace THEN LStrip(Tail(s)) ELSE s

RECURSIVE RStrip(_)
RStrip(s) ==
  IF s # <<>> /\ s[Len(s)] \in WhiteSpace
  THEN RStrip(SubSeq(s, 1, Len(s) - 1))
  ELSE s

Strip(s) == RStrip(LStrip(s))

StartsWith(s, p) == Len(s) >= Len(p) /\ SubSeq(s, 1, Len(p)) = p

EndsWithChar(s, cs) == s # <<>> /\ s[Len(s)] \in cs

RECURSIVE RStripChars(_, _)
RStripChars(s, cs) ==
  IF EndsWithChar(s, cs) THEN RStripChars(SubSeq(s, 1, Len(s) - 1), cs) ELSE s

\* First index >= j of s holding no character of cs (Len(s) + 1 if none).
RECURSIVE SkipChars(_, _, _)
SkipChars(s, j, cs) ==
  IF j <= Len(s) /\ s[j] \in cs THEN SkipChars(s, j + 1, cs) ELSE j

\* ------------------------------------------------------------- patterns

PagePrefix == <<"<", "!", "-", "-", " ", "P", "a", "g", "e">>

CommentPrefix == <<"<", "!", "-", "-">>

PageWord == <<"P", "a", "g", "e">>

\* Start positions at which  Page\s*(\d+)  matches in s.
PageMatches(s) ==
  {i \in 1..Len(s) :
     /\ i + 3 <= Len(s)
     /\ SubSeq(s, i, i + 3) = PageWord
     /\ LET j == SkipChars(s, i + 4, WhiteSpace)
        IN  j <= Len(s) /\ s[j] \in Digit}

\* re.search(r'Page\s*(\d+)', s): Optional group(1), the leftmost match.
PageNumber(s) ==
  IF PageMatches(s) = {} THEN <<>>
  ELSE LET i == CHOOSE k \in PageMatches(s) : \A m \in PageMatches(s) : k <= m
           j == SkipChars(s, i + 4, WhiteSpace)
           e == SkipChars(s, j, Digit)
       IN  <<SubSeq(s, j, e - 1)>>

PageMarker(num) == PagePrefix \o <<" ">> \o num \o <<" ", "-", "-", ">">>

\* re.search(r'\.{2,}\s*\d+\s*$', s): a table-of-contents line.
IsTOC(s) ==
  LET a == RStrip(s)
      b == RStripChars(a, Digit)
      c == RStrip(b)
  IN  /\ Len(b) < Len(a)
      /\ Len(c) >= 2
      /\ c[Len(c)] = "."
      /\ c[Len(c) - 1] = "."

\* re.match(r'^[\-\*\d\)\.]', s): the line starts like a list item.
ListStart(s) == s # <<>> /\ Head(s) \in ({"-", "*", ")", "."} \cup Digit)

\* re.search(r'[\.\!\?\:—\-]$', s)
Terminal(s) == EndsWithChar(s, {".", "!", "?", ":", "EMDASH", "-"})

\* re.match(r'^[^a-zA-Zа-яА-Я0-9]+$', s)
SymbolsOnly(s) == s # <<>> /\ \A i \in 1..Len(s) : s[i] \notin AlNum

\* re.match(r'^[\d\-\*•]\.?$', s)
ShortListMarker(s) ==
  /\ Len(s) \in {1, 2}
  /\ s[1] \in (Digit \cup {"-", "*", "BULLET"})
  /\ Len(s) = 2 => s[2] = "."

\* ----------------------------------------------------------- clean_line

None == <<>>

Some(s) == <<s>>

\* clean_line without the exemption of short list markers (line 90).
clean_line_NoListMarkers(line) ==
  LET stripped == Strip(line)
  IN  IF stripped = <<>> THEN Some(<<>>)
      ELSE IF Len(stripped) < 2 /\ ~StartsWith(stripped, CommentPrefix) THEN None
      ELSE IF SymbolsOnly(stripped) THEN None
      ELSE IF Len(stripped) <= 3 /\ ~StartsWith(stripped, CommentPrefix) THEN None
      ELSE Some(stripped)

clean_line(line) ==
  LET stripped == Strip(line)
  IN  IF stripped = <<>> THEN Some(<<>>)
      ELSE IF Len(stripped) < 2 /\ ~StartsWith(stripped, CommentPrefix) THEN None
      ELSE IF SymbolsOnly(stripped) THEN None
      ELSE IF /\ Len(stripped) <= 3
              /\ ~StartsWith(stripped, CommentPrefix)
              /\ ~ShortListMarker(stripped)
           THEN None
      ELSE Some(stripped)

\* ----------------------------------------------- clean_markdown_content

\* Bound: the number of lines of an input document.
MaxLines == 4

\* The input lines the documents are built from.
Blank == <<>>

Page1 == <<"<", "!", "-", "-", " ", "P", "a", "g", "e", " ", "1", " ", "-", "-", ">">>

Page2 == <<" ", "<", "!", "-", "-", " ", "P", "a", "g", "e", "2", "-", "-", ">">>

BadPage == <<"<", "!", "-", "-", " ", "P", "a", "g", "e", " ", "-", "-", ">">>

LongLine == <<"a", "b", " ", "c", " ", "d">>

ShortLine == <<"a", "b", " ", "c">>

OneChar == <<"d">>

Nesti == <<"CYR_N", "CYR_e", "CYR_s", "CYR_t", "CYR_i">>

Vest == <<"CYR_v", "CYR_e", "CYR_s", "CYR_t", "CYR_soft">>

Hashes == <<"#", "#">>

OneDot == <<"1", ".">>

TocLine == <<"a", " ", ".", ".", "7">>

HyphenEnd == <<"c", "o", "m", "-">>

NbHyphenEnd == <<"c", "o", "m", "NBHY">>

Sentence == <<"e", "n", "d", ".">>

Vocabulary ==
  {Blank, Page1, Page2, BadPage, LongLine, ShortLine, OneChar, Nesti, Vest,
   Hashes, OneDot, TocLine, HyphenEnd, NbHyphenEnd, Sentence}

\* The variables of one call of clean_markdown_content.
VARIABLES lines, idx, cleaned_lines, prev_line, consecutive_empty, pc, result

\* The file system, the command line options, and the variables of main,
\* clean_directory and the process_file call in progress.
VARIABLES fs, dir_exists, dry_run, do_backup, md_files, stats, file_path,
          content, cleaned_content, fpc, exit_code, runs

\* What the last step of process_file did, as it logs it (lines 200, 214,
\* 227, 229, 232, 234); a failed write_text logs nothing and raises.
VARIABLE last_io

passVars == <<lines, idx, cleaned_lines, prev_line, consecutive_empty, pc, result>>

fileVars ==
  <<fs, dir_exists, dry_run, do_backup, md_files, stats, file_path, content,
    cleaned_content, fpc, exit_code, runs, last_io>>

\* The RAGService in use (its vectorstore: None, or the chunks it holds in
\* index order), the index directory and the metadata file on disk, and the
\* last call made on the service with what it returned or raised.
VARIABLES vectorstore, index_dir, meta_file, rag_call, rag_result, rag_calls

ragVars == <<vectorstore, index_dir, meta_file, rag_call, rag_result, rag_calls>>

vars == <<passVars, fileVars, ragVars>>

\* The pass variables as one value.
PassState(cl, pl, ce) ==
  [cleaned_lines |-> cl, prev_line |-> pl, consecutive_empty |-> ce]

InitialPass == PassState(<<>>, None, 0)

IsPageLine(raw_line) == StartsWith(Strip(raw_line), PagePrefix)

\* MarkerStep resetting the empty-line counter to 0 instead of 1.
MarkerStep_CounterZero(st, raw_line) ==
  LET match == PageNumber(raw_line)
  IN  IF match # None
      THEN PassState(st.cleaned_lines \o <<PageMarker(match[1]), <<>>>>,
                     Some(<<>>), 0)
      ELSE st

\* MarkerStep suppressing a marker equal to the marker emitted just before.
MarkerStep_Dedup(st, raw_line) ==
  LET match == PageNumber(raw_line)
      cl == st.cleaned_lines
  IN  IF match = None THEN st
      ELSE IF Len(cl) >= 2 /\ cl[Len(cl) - 1] = PageMarker(match[1]) THEN st
      ELSE PassState(cl \o <<PageMarker(match[1]), <<>>>>, Some(<<>>), 1)

\* Lines 114-122: a page marker line.
MarkerStep(st, raw_line) ==
  LET match == PageNumber(raw_line)
  IN  IF match # None
      THEN PassState(st.cleaned_lines \o <<PageMarker(match[1]), <<>>>>,
                     Some(<<>>), 1)
      ELSE st

\* EmptyStep without "prev_line = ''" (line 132).
EmptyStep_KeepPrev(st) ==
  LET n == st.consecutive_empty + 1
  IN  IF n > 2
      THEN [st EXCEPT !.consecutive_empty = n]
      ELSE PassState(Append(st.cleaned_lines, <<>>), st.prev_line, n)

\* Lines 127-133: an empty line.
EmptyStep(st) ==
  LET n == st.consecutive_empty + 1
  IN  IF n > 2
      THEN [st EXCEPT !.consecutive_empty = n]
      ELSE PassState(Append(st.cleaned_lines, <<>>), Some(<<>>), n)

\* CanGlue without the table-of-contents guard (line 141).
CanGlue_NoTocGuard(cl, stripped) ==
  /\ \A i \in 1..Len(stripped) : stripped[i] # " "
  /\ cl # <<>>
  /\ LET last == cl[Len(cl)]
     IN  /\ last # <<>>
         /\ ~StartsWith(Strip(last), PagePrefix)
         /\ ~ListStart(stripped)
         /\ ~Terminal(Strip(last))

\* Lines 137-148: the conditions under which a one-word line is glued.
CanGlue(cl, stripped) ==
  /\ \A i \in 1..Len(stripped) : stripped[i] # " "
  /\ cl # <<>>
  /\ LET last == cl[Len(cl)]
     IN  /\ last # <<>>
         /\ ~StartsWith(Strip(last), PagePrefix)
         /\ ~IsTOC(last)
         /\ ~ListStart(stripped)
         /\ ~Terminal(Strip(last))

\* Glue joining without the space in both branches.
Glue_NoSpace(last, stripped) ==
  IF EndsWithChar(last, {"-"}) \/ EndsWithChar(last, {"NBHY"})
  THEN RStripChars(last, {"-", "NBHY"}) \o stripped
  ELSE last \o stripped

\* Lines 150-153: the glued line.
Glue(last, stripped) ==
  IF EndsWithChar(last, {"-"}) \/ EndsWithChar(last, {"NBHY"})
  THEN RStripChars(last, {"-", "NBHY"}) \o stripped
  ELSE last \o <<" ">> \o stripped

\* Lines 149-156: the glue path.
GlueStep(st, stripped) ==
  LET cl == st.cleaned_lines
      glued == Glue(cl[Len(cl)], stripped)
  IN  PassState([cl EXCEPT ![Len(cl)] = glued], Some(glued), 0)

\* Lines 159-176: the default path.
DefaultStep(st, raw_line) ==
  LET cleaned == clean_line(raw_line)
  IN  IF cleaned = None THEN st
      ELSE IF cleaned = st.prev_line /\ cleaned[1] # <<>> THEN st
      ELSE IF cleaned[1] = <<>> /\ st.consecutive_empty + 1 > 2
           THEN [st EXCEPT !.consecutive_empty = @ + 1]
      ELSE PassState(Append(st.cleaned_lines, cleaned[1]), cleaned,
                     IF cleaned[1] = <<>> THEN st.consecutive_empty + 1 ELSE 0)

\* Lines 112-176: one iteration of the loop over the input lines.
Step(st, raw_line) ==
  LET stripped == Strip(raw_line)
  IN  IF IsPageLine(raw_line) THEN MarkerStep(st, raw_line)
      ELSE IF stripped = <<>> THEN EmptyStep(st)
      ELSE IF CanGlue(st.cleaned_lines, stripped) THEN GlueStep(st, stripped)
      ELSE DefaultStep(st, raw_line)

\* Lines 179-180.
RECURSIVE TrimLeading(_)
TrimLeading(cl) ==
  IF cl # <<>> /\ Head(cl) = <<>> THEN TrimLeading(Tail(cl)) ELSE cl

\* TrimTrailing with "if" in place of "while": at most one line is popped.
TrimTrailing_Once(cl) ==
  IF cl # <<>> /\ cl[Len(cl)] = <<>> THEN SubSeq(cl, 1, Len(cl) - 1) ELSE cl

\* Lines 181-182.
RECURSIVE TrimTrailing(_)
TrimTrailing(cl) ==
  IF cl # <<>> /\ cl[Len(cl)] = <<>>
  THEN TrimTrailing(SubSeq(cl, 1, Len(cl) - 1))
  ELSE cl

\* Line 184: '\n'.join(cleaned_lines), as the lines of the joined string.
JoinLines(cl) == IF cl = <<>> THEN << <<>> >> ELSE cl

\* Lines 112-176 run over the first n lines of ls.
RECURSIVE Pass(_, _)
Pass(ls, n) == IF n = 0 THEN InitialPass ELSE Step(Pass(ls, n - 1), ls[n])

\* The whole function, on a document given by its lines.
clean_markdown_content(ls) ==
  JoinLines(TrimTrailing(TrimLeading(Pass(ls, Len(ls)).cleaned_lines)))

Current == PassState(cleaned_lines, prev_line, consecutive_empty)

PassInit ==
  /\ lines = <<>>
  /\ idx = 0
  /\ cleaned_lines = <<>>
  /\ prev_line = None
  /\ consecutive_empty = 0
  /\ pc = "loop"
  /\ result = << <<>> >>

\* One iteration of the for loop (lines 112-176) on the next line of the
\* document, which is any line of the vocabulary.
ProcessLine ==
  /\ pc = "loop"
  /\ idx < MaxLines
  /\ \E raw_line \in Vocabulary :
       /\ lines' = Append(lines, raw_line)
       /\ LET st == Step(Current, raw_line)
          IN  /\ cleaned_lines' = st.cleaned_lines
              /\ prev_line' = st.prev_line
              /\ consecutive_empty' = st.consecutive_empty
  /\ idx' = idx + 1
  /\ UNCHANGED <<pc, result>>
  /\ UNCHANGED <<fileVars, ragVars>>

\* Lines 178-184, once the document (of at least one line, as split gives)
\* is exhausted: trim the ends of the buffer, join and return.
Return ==
  /\ pc = "loop"
  /\ idx >= 1
  /\ cleaned_lines' = TrimTrailing(TrimLeading(cleaned_lines))
  /\ result' = JoinLines(cleaned_lines')
  /\ pc' = "done"
  /\ UNCHANGED <<lines, idx, prev_line, consecutive_empty>>
  /\ UNCHANGED <<fileVars, ragVars>>

\* ------------------------------------- process_file, clean_directory, main

\* Bound: the number of times the program is run on the directory.
MaxRuns == 2

Files == {"a.md", "b.md"}

\* A path of the directory is <<f, 0>> for the Markdown file f, <<f, 1>> for
\* f + ".bak" and <<f, k + 1>> for f + ".bak" + str(k), k >= 1.
BackupSlots == MaxRuns + 1

Paths == Files \X (0..BackupSlots)

\* The texts a Markdown file holds at the start.
Unchanged == <<Sentence>>

Shrinking == <<LongLine, ShortLine, OneChar, Blank>>

Growing == <<Page1, Sentence>>

EmptyText == << <<>> >>

FileContents == {Unchanged, Shrinking, Growing, EmptyText}

\* len(s) of a string given by its lines.
RECURSIVE SumLen(_)
SumLen(ls) == IF ls = <<>> THEN 0 ELSE Len(Head(ls)) + SumLen(Tail(ls))

StrLen(ls) == SumLen(ls) + Len(ls) - 1

ZeroStats == [files |-> 0, total_original |-> 0, total_cleaned |-> 0, skipped |-> 0]

\* Lines 271-276: the sizes process_file returned, added to the statistics.
Count(st, original, cleaned) ==
  [st EXCEPT !.total_original = @ + original,
             !.total_cleaned = @ + cleaned,
             !.skipped = IF cleaned = 0 /\ original = 0 THEN @ + 1 ELSE @]

\* ShouldWrite with the dry-run option ignored.
ShouldWrite_IgnoreDryRun(original_size, cleaned_size, dry) ==
  cleaned_size < original_size

\* Lines 211-215: whether process_file goes on to write.
ShouldWrite(original_size, cleaned_size, dry) ==
  cleaned_size < original_size /\ ~dry

\* BackupPath without the loop of lines 222-224: always f + ".bak".
BackupPath_NoLoop(f) == <<f, 1>>

\* Lines 219-224: the first backup path of f that does not exist.
BackupPath(f) ==
  <<f, CHOOSE k \in 1..BackupSlots :
         /\ fs[<<f, k>>] = None
         /\ \A j \in 1..(k - 1) : fs[<<f, j>>] # None>>

FilesIdle ==
  /\ fs = [p \in Paths |-> None]
  /\ dir_exists = FALSE
  /\ dry_run = FALSE
  /\ do_backup = TRUE
  /\ md_files = {}
  /\ stats = ZeroStats
  /\ file_path = None
  /\ content = None
  /\ cleaned_content = None
  /\ fpc = "idle"
  /\ exit_code = None
  /\ runs = 0
  /\ last_io = "none"

\* Any directory of the Markdown files, each with or without a first backup
\* left by an earlier run; or no directory at all.
FilesInit ==
  /\ dir_exists \in BOOLEAN
  /\ fs \in [Paths -> {None} \cup {Some(c) : c \in FileContents}]
  /\ \A p \in Paths : p[2] >= 2 => fs[p] = None
  /\ \A p \in Paths : p[2] = 1 /\ fs[p] # None => fs[p] = Some(Unchanged)
  /\ ~dir_exists => \A p \in Paths : fs[p] = None
  /\ dry_run = FALSE
  /\ do_backup = TRUE
  /\ md_files = {}
  /\ stats = ZeroStats
  /\ file_path = None
  /\ content = None
  /\ cleaned_content = None
  /\ fpc = "idle"
  /\ exit_code = None
  /\ runs = 0
  /\ last_io = "none"

\* main (lines 292-333) up to the loop of clean_directory (lines 249-268):
\* the options are read and the Markdown files of the directory are listed.
Main ==
  /\ fpc \in {"idle", "finished", "crashed"}
  /\ runs < MaxRuns
  /\ runs' = runs + 1
  /\ dry_run' \in BOOLEAN
  /\ do_backup' \in BOOLEAN
  /\ LET found == IF dir_exists THEN {f \in Files : fs[<<f, 0>>] # None} ELSE {}
     IN  /\ md_files' = found
         /\ stats' = [ZeroStats EXCEPT !.files = Cardinality(found)]
         /\ IF found = {}
            THEN fpc' = "finished" /\ exit_code' = Some(0)
            ELSE fpc' = "loop" /\ exit_code' = None
  /\ last_io' = "none"
  /\ UNCHANGED <<fs, dir_exists, file_path, content, cleaned_content>>
  /\ UNCHANGED <<passVars, ragVars>>

\* process_file, lines 197-215 and 233-236, on the next file of the loop: the
\* file is read and cleaned, and unless it goes on to write, the call returns.
ReadFile ==
  /\ fpc = "loop"
  /\ \E f \in md_files, read_ok \in BOOLEAN :
       /\ md_files' = md_files \ {f}
       /\ IF ~read_ok
          THEN /\ stats' = Count(stats, 0, 0)
               /\ last_io' = "read_error"
               /\ UNCHANGED <<file_path, content, cleaned_content, fpc>>
          ELSE LET text == fs[<<f, 0>>][1]
                   cleaned == clean_markdown_content(text)
               IN  IF ShouldWrite(StrLen(text), StrLen(cleaned), dry_run)
                   THEN /\ file_path' = Some(f)
                        /\ content' = Some(text)
                        /\ cleaned_content' = Some(cleaned)
                        /\ fpc' = IF do_backup THEN "backup" ELSE "write"
                        /\ last_io' = "read"
                        /\ UNCHANGED stats
                   ELSE /\ stats' = Count(stats, StrLen(text), StrLen(cleaned))
                        /\ last_io' = "unchanged"
                        /\ UNCHANGED <<file_path, content, cleaned_content, fpc>>
  /\ UNCHANGED <<fs, dir_exists, dry_run, do_backup, exit_code, runs>>
  /\ UNCHANGED <<passVars, ragVars>>

\* Lines 217-229: the backup copy.  A failed write is logged and leaves no
\* file or a file without the bytes.
WriteBackup ==
  /\ fpc = "backup"
  /\ \E outcome \in {"written", "failed", "failed_empty"} :
       LET backup_path == BackupPath(file_path[1])
       IN  /\ fs' = CASE outcome = "written" ->
                          [fs EXCEPT ![backup_path] = fs[<<file_path[1], 0>>]]
                     [] outcome = "failed" -> fs
                     [] outcome = "failed_empty" ->
                          [fs EXCEPT ![backup_path] = Some(EmptyText)]
           /\ last_io' = IF outcome = "written"
                         THEN "backup_written"
                         ELSE "backup_error"
  /\ fpc' = "write"
  /\ UNCHANGED <<dir_exists, dry_run, do_backup, md_files, stats, file_path,
                 content, cleaned_content, exit_code, runs>>
  /\ UNCHANGED <<passVars, ragVars>>

\* Lines 231-236: the file is overwritten and the call returns.  A failed
\* write raises out of process_file, clean_directory and main, and leaves
\* the file as it was or truncated.
Overwrite ==
  /\ fpc = "write"
  /\ \E outcome \in {"written", "failed", "failed_empty"} :
       /\ fs' = CASE outcome = "written" ->
                        [fs EXCEPT ![<<file_path[1], 0>>] = cleaned_content]
                  [] outcome = "failed" -> fs
                  [] outcome = "failed_empty" ->
                        [fs EXCEPT ![<<file_path[1], 0>>] = Some(EmptyText)]
       /\ IF outcome = "written"
          THEN /\ stats' = Count(stats, StrLen(content[1]), StrLen(cleaned_content[1]))
               /\ fpc' = "loop"
               /\ exit_code' = None
               /\ last_io' = "written"
          ELSE /\ fpc' = "crashed"
               /\ exit_code' = Some(1)
               /\ last_io' = "write_error"
               /\ UNCHANGED stats
  /\ file_path' = None
  /\ content' = None
  /\ cleaned_content' = None
  /\ UNCHANGED <<dir_exists, dry_run, do_backup, md_files, runs>>
  /\ UNCHANGED <<passVars, ragVars>>

\* Lines 278-289 and 335: the loop is over, the totals are logged, main
\* returns 0.
Finish ==
  /\ fpc = "loop"
  /\ md_files = {}
  /\ fpc' = "finished"
  /\ exit_code' = Some(0)
  /\ UNCHANGED <<fs, dir_exists, dry_run, do_backup, md_files, stats, file_path,
                 content, cleaned_content, runs, last_io>>
  /\ UNCHANGED <<passVars, ragVars>>

\* ------------------------------------------------------------ RAGService

\* Bound: the number of calls made on the service.
MaxCalls == 4

\* settings.top_k
TopK == 3

\* The texts handed to add_documents; "long" is longer than chunk_size.
Texts == {"", "doc1", "doc2", "long"}

TextLists == UNION {[1..n -> Texts] : n \in 0..2}

\* text_splitter.split_text (line 60): no chunk for an empty text, one for a
\* short text, several for a long one.
SplitText(text) ==
  CASE text = "" -> <<>>
    [] text = "long" -> <<"long/1", "long/2">>
    [] OTHER -> <<text>>

\* Lines 58-62: the chunks of all the texts, in order.
RECURSIVE Chunks(_)
Chunks(texts) ==
  IF texts = <<>> THEN <<>> ELSE SplitText(Head(texts)) \o Chunks(Tail(texts))

Returned(v) == [raised |-> FALSE, value |-> v]

Raised == [raised |-> TRUE, value |-> None]

Min(a, b) == IF a < b THEN a ELSE b

RagIdle ==
  /\ vectorstore = None
  /\ index_dir = None
  /\ meta_file = None
  /\ rag_call = "none"
  /\ rag_result = Returned(None)
  /\ rag_calls = 0

\* Lines 25-36 on an empty data directory: there is nothing to load.
RagInit == RagIdle

Call(name) ==
  /\ rag_calls < MaxCalls
  /\ rag_calls' = rag_calls + 1
  /\ rag_call' = name

\* __init__ (lines 18-42): a new service, which loads what is on disk.
Construct ==
  /\ Call("init")
  /\ vectorstore' = IF index_dir # None /\ meta_file # None
                    THEN index_dir
                    ELSE None
  /\ rag_result' = Returned(None)
  /\ UNCHANGED <<index_dir, meta_file>>
  /\ UNCHANGED <<passVars, fileVars>>

\* add_documents (lines 54-66) with _ensure_index (lines 44-52) and
\* _save_index (lines 85-92).  What delete([0]) does to the store made from
\* the one text "" is the library's: it removes it, or it raises for an id
\* the store does not hold and leaves the store as made.
AddDocuments ==
  /\ Call("add_documents")
  /\ \E texts \in TextLists, delete_ok \in BOOLEAN :
       IF vectorstore = None /\ ~delete_ok
       THEN /\ vectorstore' = Some(<<"">>)
            /\ rag_result' = Raised
            /\ UNCHANGED <<index_dir, meta_file>>
       ELSE LET store == IF vectorstore = None THEN <<>> ELSE vectorstore[1]
                documents == Chunks(texts)
            IN  /\ vectorstore' = Some(store \o documents)
                /\ rag_result' = Returned(None)
                /\ IF documents # <<>>
                   THEN /\ index_dir' = Some(store \o documents)
                        /\ meta_file' = Some(Len(store \o documents))
                   ELSE UNCHANGED <<index_dir, meta_file>>
  /\ UNCHANGED <<passVars, fileVars>>

\* query (lines 68-83): None, or the text joined from the fragments found,
\* given here by their number.
Query ==
  /\ Call("query")
  /\ rag_result' = IF vectorstore = None \/ vectorstore[1] = <<>>
                   THEN Returned(None)
                   ELSE Returned(Some(Min(TopK, Len(vectorstore[1]))))
  /\ UNCHANGED <<vectorstore, index_dir, meta_file>>
  /\ UNCHANGED <<passVars, fileVars>>

\* get_document_count (lines 94-101).
GetDocumentCount ==
  /\ Call("get_document_count")
  /\ rag_result' = IF vectorstore = None
                   THEN Returned(Some(0))
                   ELSE Returned(Some(Len(vectorstore[1])))
  /\ UNCHANGED <<vectorstore, index_dir, meta_file>>
  /\ UNCHANGED <<passVars, fileVars>>

\* clear (lines 103-109).  index_path is the directory _save_index made, and
\* os.remove of a directory raises.
Clear ==
  /\ Call("clear")
  /\ vectorstore' = None
  /\ IF index_dir # None
     THEN /\ rag_result' = Raised
          /\ UNCHANGED <<index_dir, meta_file>>
     ELSE /\ rag_result' = Returned(None)
          /\ meta_file' = None
          /\ UNCHANGED index_dir
  /\ UNCHANGED <<passVars, fileVars>>

Init == PassInit /\ FilesIdle /\ RagIdle

Next == ProcessLine \/ Return

Spec == Init /\ [][Next]_vars

InitFiles == PassInit /\ FilesInit /\ RagIdle

NextFiles == Main \/ ReadFile \/ WriteBackup \/ Overwrite \/ Finish

SpecFiles == InitFiles /\ [][NextFiles]_vars

InitRag == PassInit /\ FilesIdle /\ RagInit

NextRag == Construct \/ AddDocuments \/ Query \/ GetDocumentCount \/ Clear

SpecRag == InitRag /\ [][NextRag]_vars

\* ------------------------------------------------ properties of the pass

\* A ProcessLine step: the loop has consumed one more line.
LineTaken == pc = "loop" /\ idx' = idx + 1

\* The (stripped) line the step consumes.
TakenLine == Strip(lines'[idx'])

Last(cl) == cl[Len(cl)]

OneWord(s) == s # <<>> /\ \A i \in 1..Len(s) : s[i] # " "

Canonical(num) ==
  <<"<", "!", "-", "-", " ", "P", "a", "g", "e", " ">> \o num
    \o <<" ", "-", "-", ">">>

Marker1 == Canonical(<<"1">>)

Marker2 == Canonical(<<"2">>)

\* C1: the output never holds two identical non-empty lines directly after
\* one another.
C1_NoAdjacentDuplicates ==
  pc = "done" =>
    \A i \in 1..(Len(result) - 1) :
      result[i] # <<>> => result[i] # result[i + 1]

NoTripleBlank(cl) ==
  \A i \in 1..(Len(cl) - 2) :
    ~(cl[i] = <<>> /\ cl[i + 1] = <<>> /\ cl[i + 2] = <<>>)

\* C2: neither the buffer, at any point of the pass, nor the output holds
\* three or more consecutive empty lines.
C2_NoTripleBlank == NoTripleBlank(cleaned_lines) /\ NoTripleBlank(result)

\* A marker and two blank lines were read, the third blank was dropped by the
\* counter, and the text after them was appended.
C2_Witness ==
  /\ pc = "done"
  /\ lines = <<Page1, Blank, Blank, Sentence>>
  /\ result = <<Marker1, <<>>, <<>>, Sentence>>

IsCanonicalMarker(l) ==
  /\ Len(l) > 14
  /\ SubSeq(l, 1, 10) = <<"<", "!", "-", "-", " ", "P", "a", "g", "e", " ">>
  /\ SubSeq(l, Len(l) - 3, Len(l)) = <<" ", "-", "-", ">">>
  /\ \A i \in 11..(Len(l) - 4) : l[i] \in Digit

\* The canonical markers of the recognised page lines of ls, in input order.
RECURSIVE ExpectedMarkers(_)
ExpectedMarkers(ls) ==
  IF ls = <<>> THEN <<>>
  ELSE LET l == Head(ls)
       IN  (IF IsPageLine(l) /\ PageNumber(l) # None
            THEN <<Canonical(PageNumber(l)[1])>>
            ELSE <<>>) \o ExpectedMarkers(Tail(ls))

\* C3: at every point of the pass and in the output, the canonical marker
\* lines are exactly the markers of the page lines read so far, one per
\* occurrence, in input order, repeated ones included.
C3_PageMarkersPreserved ==
  /\ SelectSeq(cleaned_lines, IsCanonicalMarker) = ExpectedMarkers(lines)
  /\ pc = "done" => SelectSeq(result, IsCanonicalMarker) = ExpectedMarkers(lines)

\* A repeated marker, another marker between the two, a word after a marker
\* and a marker at the very end whose empty line is trimmed.
C3_Witness ==
  /\ pc = "done"
  /\ lines = <<Page1, Page2, Nesti, Page1>>
  /\ result = <<Marker1, <<>>, Marker2, <<>>, Nesti, Marker1>>

\* C4: a one-word line that is no list marker and follows a line ending in a
\* hyphen ("-" or the non-breaking hyphen) is joined to it, the hyphen
\* removed and no space inserted.
C4_HyphenJoin ==
  [][(/\ LineTaken
      /\ cleaned_lines # <<>>
      /\ EndsWithChar(Last(cleaned_lines), {"-", "NBHY"})
      /\ OneWord(TakenLine)
      /\ ~ListStart(TakenLine))
     => cleaned_lines' =
          [cleaned_lines EXCEPT ![Len(cleaned_lines)] =
             RStripChars(@, {"-", "NBHY"}) \o TakenLine]]_vars

\* C5: the output is a fixed point of the function.
C5_Idempotent == pc = "done" => clean_markdown_content(result) = result

Noise(s) == s # <<>> /\ (SymbolsOnly(s) \/ Len(s) = 1)

Open(cl) ==
  /\ cl # <<>>
  /\ Last(cl) # <<>>
  /\ ~IsCanonicalMarker(Last(cl))
  /\ ~IsTOC(Last(cl))
  /\ ~EndsWithChar(Last(cl), {".", "!", "?", ":", "EMDASH", "-"})

C7_GlueAlwaysWithSpace ==
  [][(/\ LineTaken
      /\ OneWord(TakenLine)
      /\ ~ListStart(TakenLine)
      /\ Open(cleaned_lines))
     => cleaned_lines' =
          [cleaned_lines EXCEPT ![Len(cleaned_lines)] =
             @ \o <<" ">> \o TakenLine]]_vars

\* C7 as amended: the same, for a last buffer line that does not end in the
\* non-breaking hyphen either.
C7_GlueWithOneSpace ==
  [][(/\ LineTaken
      /\ OneWord(TakenLine)
      /\ ~ListStart(TakenLine)
      /\ Open(cleaned_lines)
      /\ ~EndsWithChar(Last(cleaned_lines), {"NBHY"}))
     => cleaned_lines' =
          [cleaned_lines EXCEPT ![Len(cleaned_lines)] =
             @ \o <<" ">> \o TakenLine]]_vars

\* A run of two words was absorbed, in input order, by the line before it.
C7_Witness ==
  /\ pc = "done"
  /\ lines = <<LongLine, Nesti, Vest>>
  /\ result = <<LongLine \o <<" ">> \o Nesti \o <<" ">> \o Vest>>

\* C8: a buffer line matching the table-of-contents pattern is never changed
\* by a later line, and is a line of the output.
C8_TocUntouched ==
  [][/\ LineTaken =>
          \A i \in 1..Len(cleaned_lines) :
            IsTOC(cleaned_lines[i]) =>
              Len(cleaned_lines') >= i /\ cleaned_lines'[i] = cleaned_lines[i]
     /\ (pc' = "done" /\ pc = "loop") =>
          SelectSeq(result', IsTOC) = SelectSeq(cleaned_lines, IsTOC)]_vars

\* One-word lines after a table-of-contents line glued to each other, not to
\* it.
C8_Witness ==
  /\ pc = "done"
  /\ lines = <<TocLine, Blank, Nesti, Vest>>
  /\ result = <<TocLine, <<>>, Nesti \o <<" ">> \o Vest>>

\* C9: a non-empty output starts and ends with a non-empty line.
C9_EndsTrimmed ==
  (pc = "done" /\ result # << <<>> >>) =>
    Head(result) # <<>> /\ Last(result) # <<>>

\* Leading and trailing empty lines, the one after the final marker and one
\* more, were removed.
C9_Witness ==
  /\ pc = "done"
  /\ lines = <<Blank, Sentence, Page1, Blank>>
  /\ result = <<Sentence, Marker1>>

\* ------------------------------------------- properties of process_file

\* C10: a step changes the file system only when dry-run is off and the
\* file being processed cleans to a strictly shorter text; it then changes
\* only that file and its backups.
C10_WritesOnlyWhenShorter ==
  [][fs' # fs =>
       /\ ~dry_run
       /\ file_path # None
       /\ LET f == file_path[1]
              text == fs[<<f, 0>>][1]
          IN  /\ StrLen(clean_markdown_content(text)) < StrLen(text)
              /\ \A p \in Paths : fs'[p] # fs[p] => p[1] = f]_vars

\* A dry run ended that found a.md shorter once cleaned, and b.md not; both
\* are as they were and no backup exists.
C10_Witness ==
  /\ fpc = "finished"
  /\ dry_run
  /\ stats.total_cleaned < stats.total_original
  /\ fs[<<"a.md", 0>>] = Some(Shrinking)
  /\ fs[<<"b.md", 0>>] = Some(Growing)
  /\ \A p \in Paths : p[2] >= 1 => fs[p] = None

\* A step of process_file that reads or overwrites the file.
FileStep == (fpc = "loop" /\ md_files' # md_files) \/ fpc = "write"

\* C11: a read error or a write error on a file is counted as (0, 0) and
\* the loop goes on with the remaining files; the run is never aborted and
\* ends with exit code 0.
C11_FileErrorsCaught ==
  [][/\ (FileStep /\ last_io' \in {"read_error", "write_error"})
          => stats' = Count(stats, 0, 0) /\ fpc' = "loop"
     /\ fpc' # "crashed"
     /\ exit_code' \in {None, Some(0)}]_vars

\* A successful overwrite of the file f of the call in progress.
Overwritten == fpc = "write" /\ last_io' = "written"

\* C12: a backup is written to the first path of the file that does not
\* exist and holds the bytes of the file; an overwrite that follows a
\* successful backup write finds a backup holding the bytes it replaces; no
\* step changes or removes a backup that exists.
C12_BackupBeforeOverwrite ==
  [][/\ \A p \in Paths : (p[2] >= 1 /\ fs[p] # None) => fs'[p] = fs[p]
     /\ (fpc = "backup" /\ last_io' = "backup_written") =>
          \E k \in 1..BackupSlots :
            /\ fs[<<file_path[1], k>>] = None
            /\ \A j \in 1..(k - 1) : fs[<<file_path[1], j>>] # None
            /\ fs'[<<file_path[1], k>>] = fs[<<file_path[1], 0>>]
     /\ (Overwritten /\ last_io = "backup_written") =>
          /\ do_backup
          /\ fs[<<file_path[1], 0>>] = content
          /\ fs'[<<file_path[1], 0>>] = cleaned_content
          /\ \E k \in 1..BackupSlots : fs[<<file_path[1], k>>] = content]_vars

\* Two runs shortened a.md twice: the backup of the first run is still what
\* it was, the second run wrote its own beside it.
C12_Witness ==
  /\ fpc = "finished"
  /\ fs[<<"a.md", 1>>] = Some(Shrinking)
  /\ fs[<<"a.md", 2>>] = Some(<<LongLine, LongLine>>)
  /\ fs[<<"a.md", 0>>] = Some(<<LongLine>>)

\* C14: after every step of the pass prev_line is the last buffer entry,
\* if there is one; and a content line that clean_line keeps and that
\* arrives after an empty buffer entry is appended, whatever lies before
\* that entry.
C14_PrevLineIsLast ==
  [][LineTaken =>
       /\ cleaned_lines' # <<>> => prev_line' = Some(Last(cleaned_lines'))
       /\ (/\ cleaned_lines # <<>>
           /\ Last(cleaned_lines) = <<>>
           /\ TakenLine # <<>>
           /\ ~IsPageLine(lines'[idx'])
           /\ clean_line(lines'[idx']) = Some(TakenLine))
            => cleaned_lines' = Append(cleaned_lines, TakenLine)]_vars

\* The same line on both sides of a page marker (and of the empty line the
\* marker leaves behind it): both were kept.
C14_Witness ==
  /\ pc = "done"
  /\ lines = <<Sentence, Page1, Sentence>>
  /\ result = <<Sentence, Marker1, <<>>, Sentence>>

\* --------------------------------------------- properties of RAGService

\* C13: clear returns without raising and leaves no vector store, no index
\* directory and no metadata file; the calls made right after it find an
\* empty store: get_document_count returns 0, query returns None, and a new
\* service starts without a vector store.
C13_ClearClears ==
  [][/\ rag_call' = "clear" =>
          /\ ~rag_result'.raised
          /\ vectorstore' = None
          /\ index_dir' = None
          /\ meta_file' = None
     /\ (rag_call = "clear" /\ rag_call' = "get_document_count") =>
          rag_result' = Returned(Some(0))
     /\ (rag_call = "clear" /\ rag_call' = "query") =>
          rag_result' = Returned(None)
     /\ (rag_call = "clear" /\ rag_call' = "init") =>
          vectorstore' = None]_vars

====
